---- MODULE Spec2Model ----
(***************************************************************************)
(* scan_master backend: the serverless handlers under src/backend, as a    *)
(* state machine over the shared Firestore collections (users, files,      *)
(* document_content), the storage bucket and the process-local upload      *)
(* count cache of check_upload_allowance_service.                          *)
(*                                                                         *)
(* SpecQuota runs check_upload_allowance step by step (one step per access *)
(* to the database, the cache or the clock) in two concurrent invocations  *)
(* of one process.  Spec runs the HTTP handlers one request at a time.     *)
(***************************************************************************)
EXTENDS Integers, Sequences, FiniteSets, TLC

(* ------------------------------------------------------------------ *)
(* Bounds and program constants                                        *)
(* ------------------------------------------------------------------ *)

\* FREE_TIER_LIMIT is read from the environment on every request
\* (default 5); the model runs with a small configured value.
FREE_TIER_LIMIT == 1

\* Number of document ids of the files collection.
MaxFiles == 2

CACHE_TTL_MINUTES == 5

\* timedelta(days=7), in minutes
WINDOW_DAYS == 7
WEEK_MINUTES == WINDOW_DAYS * 24 * 60

\* timedelta(days=365), in minutes
SUBSCRIPTION_DAYS == 365
YEAR_MINUTES == SUBSCRIPTION_DAYS * 24 * 60

Uids == {"u1", "u2"}
DocIds == 1 .. MaxFiles
Slots == {1, 2}

\* The instants the clock (datetime.now(), in minutes) is observed at: they
\* give the ages 0, exactly the cache TTL, exactly 7 days, and more.
Times == {0, CACHE_TTL_MINUTES, WEEK_MINUTES + CACHE_TTL_MINUTES}

\* Absent values: a missing string field, a missing number field.
None == "None"
NoTime == 0 - 1
NoCount == 0 - 1

(* ------------------------------------------------------------------ *)
(* State                                                               *)
(* ------------------------------------------------------------------ *)

VARIABLES
  now,           \* the wall clock, in minutes
  users,         \* Firestore collection users: uid -> profile document
  files,         \* Firestore collection files: document id -> FileRecord
  content,       \* Firestore collection document_content: id -> full_text
  blobs,         \* object paths present in the storage bucket
  upload_cache,  \* check_upload_allowance_service's module-level dict
  inv,           \* the check_upload_allowance invocations in flight
  lastWriter,    \* history: the invocation whose profile write landed last
  overlapped,    \* history: two checks of this uid were in flight at once
  profileWrites, \* history: on-demand profile writes per uid
  resp,          \* Spec: the request just handled and its response
  tmp,           \* conversion_service: the files under /tmp of its instance
  conv,          \* the process_file_to_pdf invocations in flight
  thumbs,        \* ids whose thumbnails/{id}_thumbnail.jpg is in the bucket
  gen,           \* the generate_pdf_thumbnail invocation in flight
  sum,           \* the summary requests in flight
  pay,           \* the verify_payment request in flight
  events         \* the object notifications not yet delivered

dbVars == <<users, files, content, blobs>>
quotaVars == <<upload_cache, inv, lastWriter, overlapped, profileWrites>>
flowVars == <<tmp, conv, thumbs, gen, sum, pay>>
vars == <<now, users, files, content, blobs, upload_cache, inv, lastWriter,
          overlapped, profileWrites, resp, tmp, conv, thumbs, gen, sum, pay,
          events>>

(* ------------------------------------------------------------------ *)
(* Documents                                                           *)
(* ------------------------------------------------------------------ *)

NoProfile ==
  [exists |-> FALSE, email |-> None, isSubscribed |-> FALSE,
   subscriptionType |-> None, accountCreated |-> NoTime,
   paymentOrderId |-> None, paymentId |-> None,
   subscriptionStartDate |-> NoTime, subscriptionEndDate |-> NoTime]

\* decoded_token.get('email', '')
EmailOf(uid) == IF uid = "u1" THEN "u1@mail" ELSE ""

\* The document check_upload_allowance sets for a caller without profile.
\* set() without merge replaces the whole document.
DefaultProfile(email, t) ==
  [NoProfile EXCEPT !.exists = TRUE, !.email = email, !.isSubscribed = FALSE,
                    !.subscriptionType = "free", !.accountCreated = t]

\* user_data.get('isSubscribed') is True
IsSubscribed(doc) == doc.exists /\ doc.isSubscribed = TRUE

\* An object path "dir/uid/base.ext" of the bucket.
Path(dir, uid, base, ext) == [dir |-> dir, uid |-> uid, base |-> base, ext |-> ext]
NoPath == Path(None, None, None, None)

NoFile ==
  [exists |-> FALSE, userId |-> None, storagePath |-> NoPath,
   uploadTimestamp |-> NoTime, status |-> None, pdfPath |-> NoPath,
   errorMessage |-> None, isChatReady |-> FALSE, summary |-> None,
   chatStatus |-> None, hasThumbnail |-> FALSE]

\* The FileRecord the client writes when it uploads (with the object itself).
NewFile(uid, path, t) ==
  [NoFile EXCEPT !.exists = TRUE, !.userId = uid, !.storagePath = path,
                 !.uploadTimestamp = t, !.status = "pending"]

NoContent == [exists |-> FALSE, full_text |-> None]

(* ------------------------------------------------------------------ *)
(* Authentication (every HTTP handler's first lines)                   *)
(* ------------------------------------------------------------------ *)

\* What a request carries as Authorization header:
\*   "valid"   Bearer <token of the caller>
\*   "missing" no header, or one not starting with 'Bearer '
\*   "empty"   'Bearer ' followed by nothing: verify_id_token('') raises
\*             ValueError
\*   "invalid" verify_id_token raises auth.InvalidIdTokenError
Tokens == {"valid", "missing", "empty", "invalid"}
BadTokens == Tokens \ {"valid"}

\* The exception the authentication lines end in for handlers that raise
\* ValueError("Unauthorized") on a missing header, None when they pass.
AuthException(token) ==
  CASE token = "valid" -> None
    [] token = "missing" -> "ValueError"
    [] token = "empty" -> "ValueError"
    [] OTHER -> "InvalidIdTokenError"

(* ------------------------------------------------------------------ *)
(* Upload-count cache (check_upload_allowance_service)                 *)
(* ------------------------------------------------------------------ *)

\* datetime.isoformat() / datetime.fromisoformat() on a clock value: the
\* text carries the date and the time of day.
MinutesPerDay == 24 * 60
isoformat(t) == [date |-> t \div MinutesPerDay, time |-> t % MinutesPerDay]
fromisoformat(txt) == txt.date * MinutesPerDay + txt.time

NoEntry == [present |-> FALSE, count |-> NoCount, timestamp |-> isoformat(0)]

(* Faulty variants of the decisions below: each property of the Quota    *)
(* Tracker is also checked to fail when the code's decision is replaced  *)
(* by its variant.                                                       *)

\* the limit test with <= for <
WithinLimitInclusive(upload_count) == upload_count <= FREE_TIER_LIMIT

\* no shortcut for subscribed callers
NoSubscribedShortcut(user_doc) == FALSE

\* the profile written for every caller that is not subscribed
ProfileMissingOrFree(user_doc) == ~user_doc.exists \/ ~user_doc.isSubscribed

\* an entry of exactly the TTL's age still used
CacheFreshInclusive(entry, t) ==
  t - fromisoformat(entry.timestamp) <= CACHE_TTL_MINUTES

\* a write that keeps the document it finds (create-if-absent)
firestore_create(old, data) == IF old.exists THEN old ELSE data

\* an except clause that lets the upload through
\* The destination keeps the upload's extension.
ProcessedPathKeepingExt(path) == Path("processed", path.uid, path.base, path.ext)

\* No path is filtered out.
IgnoredPathNever(file_path) == FALSE

\* Every extension is taken to have a converter.
HasHandlerAlways(file_path) == TRUE

\* The temporary file is left behind.
KeepTemp(dir, name) == dir

\* The stored summary is not looked at.
SummaryNotFound(file_data) == "Summary not found."

\* A blank text is summarised like any other.
SummaryOfAnyText(full_text) == "summary"

\* generate_pdf_thumbnail without its path filter
EveryObjectIsPdf(file_name) == FALSE

RaiseAllowing(r, exc) ==
  [r EXCEPT !.pc = "done", !.status = 200, !.allow = "true", !.error = exc]

\* upload_cache[uid] = {'count': count, 'timestamp': datetime.now().isoformat()}
cache_upload_count(cache, uid, count, t) ==
  [cache EXCEPT ![uid] = [present |-> TRUE, count |-> count,
                          timestamp |-> isoformat(t)]]

\* datetime.now() - cache_time < timedelta(minutes=CACHE_TTL_MINUTES)
CacheFresh(entry, t) == t - fromisoformat(entry.timestamp) < CACHE_TTL_MINUTES

\* The caller's FileRecords with uploadTimestamp >= now - 7 days.
RecentUploads(fs, uid, t) ==
  {d \in DocIds : /\ fs[d].exists
                  /\ fs[d].userId = uid
                  /\ fs[d].uploadTimestamp >= t - WEEK_MINUTES}

Min(a, b) == IF a < b THEN a ELSE b

\* len(list(files_query.stream())) with .limit(FREE_TIER_LIMIT + 1)
CountQuery(fs, uid, t) ==
  Min(Cardinality(RecentUploads(fs, uid, t)), FREE_TIER_LIMIT + 1)

\* if upload_count < FREE_TIER_LIMIT: allow, else deny
WithinLimit(upload_count) == upload_count < FREE_TIER_LIMIT

\* if user_data.get('isSubscribed') is True: allow without counting
SubscribedShortcut(user_doc) == IsSubscribed(user_doc)

(* ------------------------------------------------------------------ *)
(* check_upload_allowance, step by step                                *)
(* ------------------------------------------------------------------ *)

\* When a cache entry was written, decoded from its text.
WrittenAt(entry) == entry.timestamp.date * MinutesPerDay + entry.timestamp.time

\* N: the caller's FileRecords uploaded in the trailing 7 days, as of now.
TrueCount(uid) ==
  Cardinality({d \in DocIds : /\ files[d].exists
                              /\ files[d].userId = uid
                              /\ now - files[d].uploadTimestamp <= WEEK_MINUTES})

\* One invocation: its position (pc), its locals, its response (status,
\* allow, error) and what it did so far (history).
\*   user_doc      what the snapshot it read holds: "unread", "absent",
\*                 "free" or "subscribed"
\*   found         the cache entry it read: "none", "young" (written less
\*                 than 5 minutes before the read) or "old"
\*   upload_count  the count it decides on, from the cache or the query
\*   source        where upload_count came from: "cache" or "db"
\*   underThen     whether the caller's true count of recent uploads was
\*                 below the limit when upload_count was obtained
\*   wroteAt       accountCreated of the profile it set, NoTime if none
IdleInv ==
  [pc |-> "idle", uid |-> None, user_doc |-> "unread",
   upload_count |-> NoCount, status |-> 0, allow |-> None, error |-> None,
   cacheRead |-> FALSE, cacheWrote |-> FALSE, queried |-> FALSE,
   wroteAt |-> NoTime, source |-> None, underThen |-> FALSE,
   found |-> "none"]

\* A database call of the invocation raised.
DbFailed(r) == r.error = "DbError"

Running(i) == inv[i].pc \notin {"idle", "done"}
Done(i) == inv[i].pc = "done"

\* The environment moves (clock, uploads, payments) once the responses
\* produced so far have been delivered.
Delivered == \A i \in Slots : ~Done(i)

\* except Exception as e: return ({"error": {"status": "INTERNAL", ...}}, 500)
Raise(r, exc) == [r EXCEPT !.pc = "done", !.status = 500, !.error = exc]

\* return (jsonify({"data": {"allow": ..., "reason": ...}}), 200, headers)
Respond(r, allowed) ==
  [r EXCEPT !.pc = "done", !.status = 200,
            !.allow = IF allowed THEN "true" ELSE "false"]

\* Lines 59-65: authenticate; an exception ends the request in the handler's
\* except clause.
Start(i, uid, token) ==
  /\ inv[i].pc = "idle"
  /\ inv' = [inv EXCEPT ![i] =
        IF AuthException(token) # None
        THEN Raise([IdleInv EXCEPT !.uid = uid], AuthException(token))
        ELSE [IdleInv EXCEPT !.pc = "getUser", !.uid = uid]]
  /\ overlapped' = [overlapped EXCEPT ![uid] =
        @ \/ (token = "valid" /\ \E j \in Slots \ {i} :
                                   Running(j) /\ inv[j].uid = uid)]
  /\ UNCHANGED <<now, dbVars, upload_cache, lastWriter, profileWrites, resp, flowVars, events>>

ProfileKind(doc) ==
  IF ~doc.exists THEN "absent"
  ELSE IF doc.isSubscribed THEN "subscribed" ELSE "free"

\* if not user_doc.exists: create the profile on demand
ProfileMissing(user_doc) == ~user_doc.exists

\* Lines 73-74, then the branches of lines 81 and 103 on the snapshot.
GetUser(i, dbOk) ==
  /\ inv[i].pc = "getUser"
  /\ LET r == inv[i]
         doc == users[r.uid]
         seen == [r EXCEPT !.user_doc = ProfileKind(doc)]
     IN inv' = [inv EXCEPT ![i] =
          IF ~dbOk THEN Raise(r, "DbError")
          ELSE IF ProfileMissing(doc) THEN [seen EXCEPT !.pc = "setUser"]
          ELSE IF SubscribedShortcut(doc) THEN Respond(seen, TRUE)
          ELSE [seen EXCEPT !.pc = "cacheIn"]]
  /\ UNCHANGED <<now, dbVars, upload_cache, lastWriter, overlapped,
                 profileWrites, resp, flowVars, events>>

\* DocumentReference.set(data) without merge: the stored document becomes
\* data, whatever it was.
firestore_set(old, data) == data

\* Lines 83-88: user_doc_ref.set({...}), replacing the document.
SetUser(i, dbOk) ==
  /\ inv[i].pc = "setUser"
  /\ LET r == inv[i]
         doc == DefaultProfile(EmailOf(r.uid), now)
     IN IF dbOk
        THEN /\ users' = [users EXCEPT ![r.uid] = firestore_set(@, doc)]
             /\ inv' = [inv EXCEPT ![i] = [r EXCEPT !.pc = "cacheNew", !.wroteAt = now]]
             /\ lastWriter' = [lastWriter EXCEPT ![r.uid] = i]
             /\ profileWrites' = [profileWrites EXCEPT ![r.uid] = @ + 1]
        ELSE /\ inv' = [inv EXCEPT ![i] = Raise(r, "DbError")]
             /\ UNCHANGED <<users, lastWriter, profileWrites>>
  /\ UNCHANGED <<now, files, content, blobs, upload_cache, overlapped, resp, flowVars, events>>

\* Lines 95-99: cache 0 for the new user and allow.
CacheNew(i) ==
  /\ inv[i].pc = "cacheNew"
  /\ upload_cache' = cache_upload_count(upload_cache, inv[i].uid, 0, now)
  /\ inv' = [inv EXCEPT ![i] = Respond([@ EXCEPT !.cacheWrote = TRUE], TRUE)]
  /\ UNCHANGED <<now, dbVars, lastWriter, overlapped, profileWrites, resp, flowVars, events>>

\* get_cached_upload_count, line 19: if uid in upload_cache
CacheIn(i) ==
  /\ inv[i].pc = "cacheIn"
  /\ inv' = [inv EXCEPT ![i] =
        [@ EXCEPT !.cacheRead = TRUE,
                  !.pc = IF upload_cache[inv[i].uid].present
                         THEN "cacheLoad" ELSE "query"]]
  /\ UNCHANGED <<now, dbVars, upload_cache, lastWriter, overlapped,
                 profileWrites, resp, flowVars, events>>

\* get_cached_upload_count, lines 20-24: cached_data = upload_cache[uid]
\* (KeyError when another invocation removed the key since line 19), then
\* the age test; a hit is used as the count (lines 116-118, 145-156).
CacheLoad(i) ==
  /\ inv[i].pc = "cacheLoad"
  /\ LET r == inv[i]
         entry == upload_cache[r.uid]
         got == [r EXCEPT !.found = IF now - WrittenAt(entry) >= CACHE_TTL_MINUTES
                                    THEN "old" ELSE "young"]
     IN inv' = [inv EXCEPT ![i] =
          IF ~entry.present THEN Raise(r, "KeyError")
          ELSE IF CacheFresh(entry, now)
          THEN Respond([got EXCEPT !.upload_count = entry.count,
                                   !.source = "cache",
                                   !.underThen = TrueCount(r.uid) < FREE_TIER_LIMIT],
                       WithinLimit(entry.count))
          ELSE [got EXCEPT !.pc = "cacheDel"]]
  /\ UNCHANGED <<now, dbVars, upload_cache, lastWriter, overlapped,
                 profileWrites, resp, flowVars, events>>

\* get_cached_upload_count, line 27: del upload_cache[uid] (KeyError when
\* the key is gone), then return None.
CacheDel(i) ==
  /\ inv[i].pc = "cacheDel"
  /\ LET r == inv[i]
     IN IF upload_cache[r.uid].present
        THEN /\ upload_cache' = [upload_cache EXCEPT ![r.uid] = NoEntry]
             /\ inv' = [inv EXCEPT ![i] = [r EXCEPT !.pc = "query"]]
        ELSE /\ inv' = [inv EXCEPT ![i] = Raise(r, "KeyError")]
             /\ UNCHANGED upload_cache
  /\ UNCHANGED <<now, dbVars, lastWriter, overlapped, profileWrites, resp, flowVars, events>>

\* Lines 124-134: the limited query on the files collection.
Query(i, dbOk) ==
  /\ inv[i].pc = "query"
  /\ LET r == inv[i]
     IN inv' = [inv EXCEPT ![i] =
          IF ~dbOk THEN Raise(r, "DbError")
          ELSE [r EXCEPT !.pc = "cachePut", !.queried = TRUE,
                         !.source = "db",
                         !.upload_count = CountQuery(files, r.uid, now),
                         !.underThen = TrueCount(r.uid) < FREE_TIER_LIMIT]]
  /\ UNCHANGED <<now, dbVars, upload_cache, lastWriter, overlapped,
                 profileWrites, resp, flowVars, events>>

\* Line 137, then lines 145-156: cache the count and decide.
CachePut(i) ==
  /\ inv[i].pc = "cachePut"
  /\ upload_cache' =
        cache_upload_count(upload_cache, inv[i].uid, inv[i].upload_count, now)
  /\ inv' = [inv EXCEPT ![i] =
        Respond([@ EXCEPT !.cacheWrote = TRUE], WithinLimit(inv[i].upload_count))]
  /\ UNCHANGED <<now, dbVars, lastWriter, overlapped, profileWrites, resp, flowVars, events>>

\* The response has been sent: the invocation's frame is gone.
Return(i) ==
  /\ Done(i)
  /\ inv' = [inv EXCEPT ![i] = IdleInv]
  /\ lastWriter' = [u \in Uids |-> IF lastWriter[u] = i THEN 0 ELSE lastWriter[u]]
  /\ UNCHANGED <<now, dbVars, upload_cache, overlapped, profileWrites, resp, flowVars, events>>

(* ------------------------------------------------------------------ *)
(* verify_payment                                                      *)
(* ------------------------------------------------------------------ *)

PaymentIds == {"pay_1", "pay_2", "pay_x"}
OrderIds == {"order_1", "order_2"}
Signatures == {"sig_ok", "sig_bad"}

\* razorpay_client.payment.fetch(id): the gateway's record of the payment;
\* an unknown id raises BadRequestError.
PaymentDetails(pid) ==
  CASE pid = "pay_1" -> [known |-> TRUE, status |-> "captured", order_id |-> "order_1"]
    [] pid = "pay_2" -> [known |-> TRUE, status |-> "failed", order_id |-> "order_2"]
    [] OTHER -> [known |-> FALSE, status |-> None, order_id |-> None]

\* Lines 52-69: the checks made on the fetched payment; razorpay_signature
\* is read from the request (line 37) and used by none of them.
PaymentVerified(order_id, pid, signature) ==
  LET details == PaymentDetails(pid)
  IN /\ details.known
     /\ details.status = "captured"
     /\ details.order_id = order_id

\* Lines 78-85: user_ref.set({...}, merge=True): the named fields are
\* written, the document's other fields stay.
SubscribedProfile(old, order_id, pid, t) ==
  [old EXCEPT !.exists = TRUE, !.isSubscribed = TRUE,
              !.subscriptionType = "premium_yearly",
              !.paymentOrderId = order_id, !.paymentId = pid,
              !.subscriptionStartDate = t,
              !.subscriptionEndDate = t + YEAR_MINUTES]

\* The HTTP status of verify_payment: ValueError is answered 400, any other
\* exception 500 (lines 91-98).
VerifyPaymentStatus(token, order_id, pid, signature, dbOk) ==
  IF AuthException(token) = "ValueError" THEN 400
  ELSE IF AuthException(token) # None THEN 500
  ELSE IF ~PaymentVerified(order_id, pid, signature) THEN 400
  ELSE IF ~dbOk THEN 500
  ELSE 200

\* verify_payment, step by step (SpecPay).  The request: its position, its
\* Authorization header, the user of its token, the order_id, razorpay_payment_id and
\* razorpay_signature of its body, its HTTP status, and whether it wrote
\* the caller's profile.
IdlePay ==
  [pc |-> "idle", token |-> None, uid |-> None, order_id |-> None,
   pid |-> None, signature |-> None, status |-> 0, wrote |-> FALSE]

\* Lines 25-37: the token is verified and the body read; a missing header
\* is a ValueError (400), a token that fails verification any other
\* exception (500).
PayStart(token, uid, order_id, pid, signature) ==
  /\ pay.pc = "idle"
  /\ LET r == [IdlePay EXCEPT !.token = token, !.uid = uid,
                              !.order_id = order_id,
                              !.pid = pid, !.signature = signature]
     IN pay' = IF AuthException(token) = "ValueError"
               THEN [r EXCEPT !.pc = "done", !.status = 400]
               ELSE IF AuthException(token) # None
               THEN [r EXCEPT !.pc = "done", !.status = 500]
               ELSE [r EXCEPT !.pc = "fetch"]
  /\ UNCHANGED <<now, dbVars, quotaVars, resp, events, tmp, conv, thumbs, gen, sum>>

\* Lines 52-69: the payment is fetched from the gateway and checked; a
\* failed call and a failed check are both raised as ValueError (400).
PayFetch(ok) ==
  /\ pay.pc = "fetch"
  /\ pay' = IF ok /\ PaymentVerified(pay.order_id, pay.pid, pay.signature)
            THEN [pay EXCEPT !.pc = "set"]
            ELSE [pay EXCEPT !.pc = "done", !.status = 400]
  /\ UNCHANGED <<now, dbVars, quotaVars, resp, events, tmp, conv, thumbs, gen, sum>>

\* Lines 71-89: user_ref.set({...}, merge=True) and the success answer; a
\* failed write is answered 500.
PaySet(dbOk) ==
  /\ pay.pc = "set"
  /\ IF dbOk
     THEN /\ users' = [users EXCEPT ![pay.uid] =
                SubscribedProfile(@, pay.order_id, pay.pid, now)]
          /\ pay' = [pay EXCEPT !.pc = "done", !.status = 200, !.wrote = TRUE]
     ELSE /\ pay' = [pay EXCEPT !.pc = "done", !.status = 500]
          /\ UNCHANGED users
  /\ UNCHANGED <<now, files, content, blobs, quotaVars, resp, events, tmp, conv, thumbs, gen, sum>>

\* The response is sent: the request is over.
PayDone ==
  /\ pay.pc = "done"
  /\ pay' = IdlePay
  /\ UNCHANGED <<now, dbVars, quotaVars, resp, events, tmp, conv, thumbs, gen, sum>>

(* ------------------------------------------------------------------ *)
(* HTTP requests and responses (Spec)                                  *)
(* ------------------------------------------------------------------ *)

\* No request handled since the last move of the environment.
NoResp ==
  [handler |-> None, token |-> None, appCheck |-> None, caller |-> None,
   doc |-> 0, owner |-> None, status |-> 0, data |-> None, wrote |-> FALSE]

\* The request a handler just served and its response: the headers it came
\* with (token, appCheck), the user the token belongs to (caller), the
\* documentId of its body (doc, 0 for a handler without one), the userId
\* stored in that FileRecord when the request arrived (owner), the HTTP
\* status, the kind of payload of a "data"/"result" body (data), and whether
\* handling it changed a collection or the bucket (wrote).
Request(handler, token, appCheck, caller, d, status, data) ==
  [handler |-> handler, token |-> token, appCheck |-> appCheck,
   caller |-> caller, doc |-> d,
   owner |-> IF d \in DocIds THEN files[d].userId ELSE None,
   status |-> status, data |-> data,
   wrote |-> <<users, files, content, blobs>>' # <<users, files, content, blobs>>]

(* ------------------------------------------------------------------ *)
(* Environment: the clock and the client's uploads                     *)
(* ------------------------------------------------------------------ *)

AdvanceTime ==
  /\ Delivered
  /\ \E t \in Times : t > now /\ now' = t
  /\ resp' = NoResp
  /\ UNCHANGED <<dbVars, quotaVars, flowVars, events>>

FreeIds == {d \in DocIds : ~files[d].exists}

\* The bucket notifies both storage-triggered functions of every object
\* written to it: the notifications of one write.
EventFunctions == {"process_file_to_pdf", "generate_pdf_thumbnail"}
Notification(fn, path) == [fn |-> fn, path |-> path]
Finalized(path) == {Notification(fn, path) : fn \in EventFunctions}

\* The client creates the FileRecord and puts the object under uploads/.
PutUpload(uid, base, ext) ==
  /\ Delivered
  /\ FreeIds # {}
  /\ LET d == CHOOSE x \in FreeIds : \A y \in FreeIds : x <= y
         path == Path("uploads", uid, base, ext)
     IN /\ files' = [files EXCEPT ![d] = NewFile(uid, path, now)]
        /\ blobs' = blobs \cup {path}
  /\ resp' = NoResp
  /\ UNCHANGED <<now, users, content, quotaVars, flowVars>>

\* The upload where the notifications in flight are not followed: every
\* object of the bucket may then be delivered at any time.
Upload(uid, base, ext) == PutUpload(uid, base, ext) /\ UNCHANGED events

\* A verify_payment request that passes every check, seen from the users
\* collection.
PaymentLands(uid) ==
  /\ Delivered
  /\ \E o \in OrderIds, p \in PaymentIds, s \in Signatures :
        /\ VerifyPaymentStatus("valid", o, p, s, TRUE) = 200
        /\ users' = [users EXCEPT ![uid] = SubscribedProfile(@, o, p, now)]
  /\ resp' = NoResp
  /\ UNCHANGED <<now, files, content, blobs, quotaVars, flowVars, events>>

(* ------------------------------------------------------------------ *)
(* conversion_service: process_file_to_pdf, one event at a time        *)
(* ------------------------------------------------------------------ *)

FILE_HANDLERS ==
  {".jpeg", ".jpg", ".png", ".txt", ".docx", ".csv", ".xlsx", ".pptx"}

\* destination_blob_name = f"processed/{user_id}/{new_pdf_name}"
ProcessedPath(path) == Path("processed", path.uid, path.base, ".pdf")

\* The object-finalised event of the upload of FileRecord d (the object's
\* firestoreDocId metadata names d); converted tells whether the download
\* and the handler succeeded.
process_file_to_pdf(d, converted) ==
  LET file == files[d]
      path == file.storagePath
  IN /\ file.exists
     /\ path \in blobs
     /\ path.dir = "uploads"
     /\ IF path.ext \notin FILE_HANDLERS
        THEN /\ files' = [files EXCEPT ![d].status = "Unsupported file type"]
             /\ UNCHANGED blobs
        ELSE IF converted
        THEN /\ blobs' = blobs \cup {ProcessedPath(path)}
             /\ files' = [files EXCEPT ![d].status = "Completed",
                                       ![d].pdfPath = ProcessedPath(path)]
        ELSE /\ files' = [files EXCEPT ![d].status = "Error",
                                       ![d].errorMessage = "conversion failed"]
             /\ UNCHANGED blobs
     /\ resp' = NoResp
     /\ UNCHANGED <<now, users, content, quotaVars, flowVars, events>>

(* ------------------------------------------------------------------ *)
(* process_file_to_pdf, step by step (SpecPipeline)                    *)
(* ------------------------------------------------------------------ *)

ConvSlots == {1, 2}

\* if 'processed/' in file_path or not file_path.startswith('uploads/')
IgnoredPath(file_path) ==
  \/ file_path.dir = "processed" \/ file_path.uid = "processed"
  \/ file_path.dir # "uploads"

\* metadata.get('firestoreDocId'): the id the client attached to the object
\* it uploaded for a FileRecord, 0 for an object without that metadata.
FirestoreDocId(file_path) ==
  IF \E d \in DocIds : files[d].exists /\ files[d].storagePath = file_path
  THEN CHOOSE d \in DocIds : files[d].exists /\ files[d].storagePath = file_path
  ELSE 0

\* handler = FILE_HANDLERS.get(file_extension.lower())
HasHandler(file_path) == file_path.ext \in FILE_HANDLERS

\* temp_download_path = f"/tmp/{file_name_only}"
TempName(file_path) == [base |-> file_path.base, ext |-> file_path.ext]

\* finally: if os.path.exists(temp_download_path): os.remove(...)
RemoveTemp(dir, name) == dir \ {name}

\* doc_ref.update(fields): raises, and changes nothing, when the database
\* call fails or the document does not exist.
CanUpdate(d, dbOk) == dbOk /\ files[d].exists

\* One invocation: its position, the event's object path, the document id
\* read from the metadata, the message of the exception caught at line 168
\* (exc), and what it did so far:
\*   ignored     why the event was dropped before any processing
\*   unsupported the extension had no handler when it was looked up
\*   downloaded  the temporary input file was written
\*   invoked     a converter was called
\*   uploaded    the PDF was uploaded
\*   wrote       the status it set on the FileRecord, None if none
\*   pdfSet      the pdfPath it set
\*   updFailed   a record update it made raised
\*   tmpLeft     the temporary input file existed when it returned
IdleConv ==
  [pc |-> "idle", path |-> NoPath, doc_id |-> 0, exc |-> None,
   ignored |-> None, unsupported |-> FALSE, downloaded |-> FALSE,
   invoked |-> FALSE, uploaded |-> FALSE, wrote |-> None, pdfSet |-> NoPath,
   updFailed |-> FALSE, tmpLeft |-> FALSE]

ConvRunning(i) == conv[i].pc \notin {"idle", "returned", "raised"}
ConvEnded(i) == conv[i].pc \in {"returned", "raised"}

\* return: the handler ends normally.
ConvReturned(r, dir) ==
  [r EXCEPT !.pc = "returned", !.tmpLeft = TempName(r.path) \in dir]

\* An exception outside every try block leaves the handler.
ConvRaised(r) == [r EXCEPT !.pc = "raised"]

\* Lines 102-108: the event of an object of the bucket; paths under
\* processed/ or outside uploads/ are ignored.
ConvTake(i, file_path) ==
  /\ conv[i].pc = "idle"
  /\ LET r == [IdleConv EXCEPT !.path = file_path]
     IN conv' = [conv EXCEPT ![i] =
          IF IgnoredPath(file_path)
          THEN ConvReturned(
                 [r EXCEPT !.ignored =
                    IF "processed" \in {file_path.dir, file_path.uid}
                    THEN "processed" ELSE "notUploads"], tmp)
          ELSE [r EXCEPT !.pc = "reload"]]
  /\ UNCHANGED <<now, dbVars, quotaVars, resp, pay, tmp, thumbs, gen, sum>>

\* The event of an object of the bucket, delivered at any time.
ConvStart(i, file_path) ==
  /\ file_path \in blobs
  /\ ConvTake(i, file_path)
  /\ UNCHANGED events

\* The event of a notification in flight, delivered once.
ConvNotified(i, file_path) ==
  /\ Notification("process_file_to_pdf", file_path) \in events
  /\ ConvTake(i, file_path)
  /\ events' = events \ {Notification("process_file_to_pdf", file_path)}

\* Lines 109-118: source_blob.reload() (outside every try block: a failed
\* call, or an object deleted since the event, raises out of the handler),
\* then the metadata's document id.
ConvReload(i, ok) ==
  /\ conv[i].pc = "reload"
  /\ LET r == conv[i]
         doc_id == FirestoreDocId(r.path)
     IN conv' = [conv EXCEPT ![i] =
          IF ~ok \/ r.path \notin blobs THEN ConvRaised(r)
          ELSE IF doc_id = 0
          THEN ConvReturned([r EXCEPT !.ignored = "noDocId"], tmp)
          ELSE [r EXCEPT !.pc = "checkDoc", !.doc_id = doc_id]]
  /\ UNCHANGED <<now, dbVars, quotaVars, resp, pay, events, tmp, thumbs, gen, sum>>

\* Lines 120-133: the FileRecord must exist (a failed read returns too),
\* then the handler for the extension is looked up.
ConvCheckDoc(i, dbOk) ==
  /\ conv[i].pc = "checkDoc"
  /\ LET r == conv[i]
     IN conv' = [conv EXCEPT ![i] =
          IF ~dbOk THEN ConvReturned(r, tmp)
          ELSE IF ~files[r.doc_id].exists
          THEN ConvReturned([r EXCEPT !.ignored = "noRecord"], tmp)
          ELSE IF ~HasHandler(r.path)
          THEN [r EXCEPT !.pc = "unsupported",
                         !.unsupported = r.path.ext \notin FILE_HANDLERS]
          ELSE [r EXCEPT !.pc = "download"]]
  /\ UNCHANGED <<now, dbVars, quotaVars, resp, pay, events, tmp, thumbs, gen, sum>>

\* Lines 135-140: doc_ref.update({'status': 'Unsupported file type'}), a
\* failure of the update swallowed.
ConvUnsupported(i, dbOk) ==
  /\ conv[i].pc = "unsupported"
  /\ LET r == conv[i]
     IN IF CanUpdate(r.doc_id, dbOk)
        THEN /\ files' = [files EXCEPT ![r.doc_id].status = "Unsupported file type"]
             /\ conv' = [conv EXCEPT ![i] =
                   ConvReturned([r EXCEPT !.wrote = "Unsupported file type"], tmp)]
        ELSE /\ conv' = [conv EXCEPT ![i] =
                   ConvReturned([r EXCEPT !.updFailed = TRUE], tmp)]
             /\ UNCHANGED files
  /\ UNCHANGED <<now, users, content, blobs, quotaVars, resp, pay, events, tmp, thumbs, gen, sum>>

\* Line 149: source_blob.download_to_filename(temp_download_path); a failed
\* download may leave the file it opened (left).
ConvDownload(i, ok, left) ==
  /\ conv[i].pc = "download"
  /\ LET r == conv[i]
     IN IF ok /\ r.path \in blobs
        THEN /\ tmp' = tmp \cup {TempName(r.path)}
             /\ conv' = [conv EXCEPT ![i] =
                   [r EXCEPT !.pc = "convert", !.downloaded = TRUE]]
        ELSE /\ tmp' = IF left THEN tmp \cup {TempName(r.path)} ELSE tmp
             /\ conv' = [conv EXCEPT ![i] =
                   [r EXCEPT !.pc = "error", !.exc = "download failed",
                             !.downloaded = left]]
  /\ UNCHANGED <<now, dbVars, quotaVars, resp, pay, events, thumbs, gen, sum>>

\* Line 150: pdf_buffer = handler(temp_download_path, temp_dir); the
\* converter reads the temporary file and may fail.
ConvConvert(i, ok) ==
  /\ conv[i].pc = "convert"
  /\ LET r == [conv[i] EXCEPT !.invoked = TRUE]
     IN conv' = [conv EXCEPT ![i] =
          IF ok /\ TempName(r.path) \in tmp
          THEN [r EXCEPT !.pc = "upload"]
          ELSE [r EXCEPT !.pc = "error", !.exc = "conversion failed"]]
  /\ UNCHANGED <<now, dbVars, quotaVars, resp, pay, events, tmp, thumbs, gen, sum>>

\* Lines 152-157: destination_blob.upload_from_file(pdf_buffer, ...)
ConvPut(i, ok) ==
  /\ conv[i].pc = "upload"
  /\ LET r == conv[i]
     IN IF ok
        THEN /\ blobs' = blobs \cup {ProcessedPath(r.path)}
             /\ conv' = [conv EXCEPT ![i] =
                   [r EXCEPT !.pc = "complete", !.uploaded = TRUE]]
        ELSE /\ conv' = [conv EXCEPT ![i] =
                   [r EXCEPT !.pc = "error", !.exc = "upload failed"]]
             /\ UNCHANGED blobs
  /\ UNCHANGED <<now, users, files, content, quotaVars, resp, pay, tmp, thumbs, gen, sum>>

ConvUpload(i, ok) == ConvPut(i, ok) /\ UNCHANGED events

\* The upload of the PDF with its notifications.
ConvUploadNotified(i) ==
  /\ ConvPut(i, TRUE)
  /\ events' = events \cup Finalized(ProcessedPath(conv[i].path))

\* Lines 159-166: doc_ref.update({'status': 'Completed', 'pdfPath': ...}),
\* a failure of the update swallowed.
ConvComplete(i, dbOk) ==
  /\ conv[i].pc = "complete"
  /\ LET r == conv[i]
     IN IF CanUpdate(r.doc_id, dbOk)
        THEN /\ files' = [files EXCEPT ![r.doc_id].status = "Completed",
                                       ![r.doc_id].pdfPath = ProcessedPath(r.path)]
             /\ conv' = [conv EXCEPT ![i] =
                   [r EXCEPT !.pc = "finally", !.wrote = "Completed",
                             !.pdfSet = ProcessedPath(r.path)]]
        ELSE /\ conv' = [conv EXCEPT ![i] =
                   [r EXCEPT !.pc = "finally", !.updFailed = TRUE]]
             /\ UNCHANGED files
  /\ UNCHANGED <<now, users, content, blobs, quotaVars, resp, pay, events, tmp, thumbs, gen, sum>>

\* Lines 168-173: doc_ref.update({'status': 'Error', 'errorMessage': str(e)}),
\* a failure of the update swallowed.
ConvError(i, dbOk) ==
  /\ conv[i].pc = "error"
  /\ LET r == conv[i]
     IN IF CanUpdate(r.doc_id, dbOk)
        THEN /\ files' = [files EXCEPT ![r.doc_id].status = "Error",
                                       ![r.doc_id].errorMessage = r.exc]
             /\ conv' = [conv EXCEPT ![i] =
                   [r EXCEPT !.pc = "finally", !.wrote = "Error"]]
        ELSE /\ conv' = [conv EXCEPT ![i] =
                   [r EXCEPT !.pc = "finally", !.updFailed = TRUE]]
             /\ UNCHANGED files
  /\ UNCHANGED <<now, users, content, blobs, quotaVars, resp, pay, events, tmp, thumbs, gen, sum>>

\* Lines 174-176: the temporary input file is removed, the handler returns.
ConvFinally(i) ==
  /\ conv[i].pc = "finally"
  /\ tmp' = RemoveTemp(tmp, TempName(conv[i].path))
  /\ conv' = [conv EXCEPT ![i] = ConvReturned(@, tmp')]
  /\ UNCHANGED <<now, dbVars, quotaVars, resp, pay, events, thumbs, gen, sum>>

\* The invocation is over: its frame is gone.
ConvDone(i) ==
  /\ ConvEnded(i)
  /\ conv' = [conv EXCEPT ![i] = IdleConv]
  /\ UNCHANGED <<now, dbVars, quotaVars, resp, pay, events, tmp, thumbs, gen, sum>>

(* ------------------------------------------------------------------ *)
(* generate_pdf_thumbnail, step by step (SpecThumb)                    *)
(* ------------------------------------------------------------------ *)

\* if not file_name.startswith('processed/') or not file_name.endswith('.pdf')
NotProcessedPdf(file_name) == file_name.dir # "processed" \/ file_name.ext # ".pdf"

\* filename = file_name.split('/')[-1]
Basename(file_name) == [base |-> file_name.base, ext |-> file_name.ext]

\* The first query: records whose storagePath starts with file_name.
ByStoragePath(file_name) ==
  {d \in DocIds : files[d].exists /\ files[d].storagePath = file_name}

\* The fallback query: Completed records whose pdfPath contains filename.
ByPdfPath(file_name) ==
  {d \in DocIds : /\ files[d].exists
                  /\ files[d].status = "Completed"
                  /\ files[d].pdfPath # NoPath
                  /\ Basename(files[d].pdfPath) = Basename(file_name)}

\* _extract_document_id_from_filename: the ids one of which the lookup
\* returns (the first of the query's stream); none is "return None".
extract_document_id_from_filename(file_name) ==
  IF ByStoragePath(file_name) # {} THEN ByStoragePath(file_name)
  ELSE ByPdfPath(file_name)

\* The records the PDF at file_name belongs to: the ones converted, or
\* being converted, into it.
RecordsOf(file_name) ==
  {d \in DocIds : /\ files[d].exists
                  /\ \/ files[d].pdfPath = file_name
                     \/ ProcessedPath(files[d].storagePath) = file_name}

\* The invocation: its position, the event's object, the document id the
\* lookup returned, and
\*   ownGone   no FileRecord of the PDF existed when the event was taken
\*             and when the lookup ran
\*   uploaded  it put a thumbnail object in the bucket
\*   updated   the record it updated, 0 if none
IdleGen ==
  [pc |-> "idle", path |-> NoPath, document_id |-> 0, ownGone |-> FALSE,
   uploaded |-> FALSE, updated |-> 0]

GenReturned(r) == [r EXCEPT !.pc = "returned"]

\* Lines 30-51: the event of an object; only PDFs under processed/ pass.
GenTake(file_name) ==
  /\ gen.pc = "idle"
  /\ LET r == [IdleGen EXCEPT !.path = file_name,
                              !.ownGone = RecordsOf(file_name) = {}]
     IN gen' = IF NotProcessedPdf(file_name) THEN GenReturned(r)
               ELSE [r EXCEPT !.pc = "lookup"]
  /\ UNCHANGED <<now, dbVars, quotaVars, resp, pay, tmp, conv, thumbs, sum>>

\* The event of an object of the bucket, delivered at any time.
GenStart(file_name) ==
  /\ file_name \in blobs
  /\ GenTake(file_name)
  /\ UNCHANGED events

\* The event of a notification in flight, delivered once.
GenNotified(file_name) ==
  /\ Notification("generate_pdf_thumbnail", file_name) \in events
  /\ GenTake(file_name)
  /\ events' = events \ {Notification("generate_pdf_thumbnail", file_name)}

\* Lines 53-57: the lookup; a failed query, or no match, ends the handler.
GenLookup(dbOk) ==
  /\ gen.pc = "lookup"
  /\ LET found == extract_document_id_from_filename(gen.path)
         r == [gen EXCEPT !.ownGone = @ /\ RecordsOf(gen.path) = {}]
     IN IF ~dbOk \/ found = {}
        THEN gen' = GenReturned(r)
        ELSE \E d \in found :
               gen' = [r EXCEPT !.pc = "download", !.document_id = d]
  /\ UNCHANGED <<now, dbVars, quotaVars, resp, pay, events, tmp, conv, thumbs, sum>>

\* Lines 60-69: pdf_blob.download_to_filename(temp_pdf.name)
GenDownload(ok) ==
  /\ gen.pc = "download"
  /\ gen' = IF ok /\ gen.path \in blobs THEN [gen EXCEPT !.pc = "render"]
            ELSE GenReturned(gen)
  /\ UNCHANGED <<now, dbVars, quotaVars, resp, pay, events, tmp, conv, thumbs, sum>>

\* Line 75: _generate_thumbnail_from_pdf(temp_pdf_path)
GenRender(ok) ==
  /\ gen.pc = "render"
  /\ gen' = IF ok THEN [gen EXCEPT !.pc = "upload"] ELSE GenReturned(gen)
  /\ UNCHANGED <<now, dbVars, quotaVars, resp, pay, events, tmp, conv, thumbs, sum>>

\* Line 79: _upload_thumbnail_to_storage(document_id, thumbnail_data) puts
\* thumbnails/{document_id}_thumbnail.jpg.
GenPut(ok) ==
  /\ gen.pc = "upload"
  /\ IF ok
     THEN /\ thumbs' = thumbs \cup {gen.document_id}
          /\ gen' = [gen EXCEPT !.pc = "update", !.uploaded = TRUE]
     ELSE /\ gen' = GenReturned(gen)
          /\ UNCHANGED thumbs
  /\ UNCHANGED <<now, dbVars, quotaVars, resp, pay, tmp, conv, sum>>

GenUpload(ok) == GenPut(ok) /\ UNCHANGED events

\* blob_name = f"thumbnails/{document_id}_thumbnail.jpg"
ThumbnailPath(document_id) ==
  Path("thumbnails", None, ToString(document_id) \o "_thumbnail", ".jpg")

\* The upload of the thumbnail with its notifications.
GenUploadNotified ==
  /\ GenPut(TRUE)
  /\ events' = events \cup Finalized(ThumbnailPath(gen.document_id))

\* Line 83: _update_document_with_thumbnail(document_id, thumbnail_url);
\* the update raises for a missing record, the outer except swallows it.
GenUpdate(dbOk) ==
  /\ gen.pc = "update"
  /\ IF CanUpdate(gen.document_id, dbOk)
     THEN /\ files' = [files EXCEPT ![gen.document_id].hasThumbnail = TRUE]
          /\ gen' = GenReturned([gen EXCEPT !.updated = gen.document_id])
     ELSE /\ gen' = GenReturned(gen)
          /\ UNCHANGED files
  /\ UNCHANGED <<now, users, content, blobs, quotaVars, resp, pay, events, tmp, conv, thumbs, sum>>

\* The invocation is over: its frame is gone.
GenDone ==
  /\ gen.pc = "returned"
  /\ gen' = IdleGen
  /\ UNCHANGED <<now, dbVars, quotaVars, resp, pay, events, tmp, conv, thumbs, sum>>

(* ------------------------------------------------------------------ *)
(* The HTTP handlers, one request at a time                            *)
(* ------------------------------------------------------------------ *)

\* check_upload_allowance as one request (its database calls succeeding).
check_upload_allowance(token, caller) ==
  LET user_doc == users[caller]
      entry == upload_cache[caller]
      hit == entry.present /\ CacheFresh(entry, now)
      upload_count == IF hit THEN entry.count
                      ELSE CountQuery(files, caller, now)
  IN /\ IF AuthException(token) # None
        THEN /\ UNCHANGED <<users, upload_cache>>
             /\ UNCHANGED <<files, content, blobs>>
             /\ resp' = Request("check_upload_allowance", token, None, caller,
                                0, 500, None)
        ELSE IF ProfileMissing(user_doc)
        THEN /\ users' = [users EXCEPT ![caller] =
                   firestore_set(@, DefaultProfile(EmailOf(caller), now))]
             /\ upload_cache' = cache_upload_count(upload_cache, caller, 0, now)
             /\ UNCHANGED <<files, content, blobs>>
             /\ resp' = Request("check_upload_allowance", token, None, caller,
                                0, 200, "allow")
        ELSE IF SubscribedShortcut(user_doc)
        THEN /\ UNCHANGED <<users, upload_cache>>
             /\ UNCHANGED <<files, content, blobs>>
             /\ resp' = Request("check_upload_allowance", token, None, caller,
                                0, 200, "allow")
        ELSE /\ upload_cache' =
                   IF hit THEN upload_cache
                   ELSE cache_upload_count(upload_cache, caller, upload_count, now)
             /\ UNCHANGED <<users, files, content, blobs>>
             /\ resp' = Request("check_upload_allowance", token, None, caller,
                                0, 200,
                                IF WithinLimit(upload_count) THEN "allow" ELSE "deny")
     /\ UNCHANGED <<now, inv, lastWriter, overlapped, profileWrites, flowVars, events>>

\* doc_data.get('userId') != user_id
NotOwner(file, user_id) == file.userId # user_id

\* delete_file: every failure, the authentication and ownership ones
\* included, is raised and answered by the except clause with 500.
delete_file(token, caller, d) ==
  LET doc_data == files[d]
      failed == \/ AuthException(token) # None
                \/ ~doc_data.exists
                \/ NotOwner(doc_data, caller)
  IN /\ IF failed
        THEN UNCHANGED <<files, blobs>>
        ELSE /\ blobs' = blobs \ {doc_data.storagePath, doc_data.pdfPath}
             /\ files' = [files EXCEPT ![d] = NoFile]
     /\ UNCHANGED <<users, content>>
     /\ resp' = Request("delete_file", token, None, caller, d,
                        IF failed THEN 500 ELSE 200,
                        IF failed THEN None ELSE "success")
     /\ UNCHANGED <<now, quotaVars, flowVars, events>>

\* get_download_url: its own 401/404/403 answers, auth.InvalidIdTokenError
\* answered 401, any other exception 500.
GetDownloadUrlStatus(token, caller, d) ==
  LET doc_data == files[d]
  IN IF token = "missing" THEN 401
     ELSE IF AuthException(token) = "InvalidIdTokenError" THEN 401
     ELSE IF AuthException(token) # None THEN 500
     ELSE IF ~doc_data.exists THEN 404
     ELSE IF NotOwner(doc_data, caller) THEN 403
     ELSE IF doc_data.pdfPath = NoPath THEN 404
     ELSE IF doc_data.pdfPath \notin blobs THEN 404
     ELSE 200

get_download_url(token, caller, d) ==
  LET status == GetDownloadUrlStatus(token, caller, d)
  IN /\ UNCHANGED <<users, files, content, blobs>>
     /\ resp' = Request("get_download_url", token, None, caller, d, status,
                        IF status = 200 THEN "url" ELSE None)
     /\ UNCHANGED <<now, quotaVars, flowVars, events>>

\* chat_with_document: 401 for a missing header, 403 for another user's
\* document, 500 for every exception (a token that fails verification, a
\* missing record or content, the model call failing).
ChatStatus(token, caller, d, answered) ==
  LET file_data == files[d]
  IN IF token = "missing" THEN 401
     ELSE IF AuthException(token) # None THEN 500
     ELSE IF ~file_data.exists THEN 500
     ELSE IF NotOwner(file_data, caller) THEN 403
     ELSE IF ~content[d].exists THEN 500
     ELSE IF content[d].full_text = "" THEN 200
     ELSE IF ~answered THEN 500
     ELSE 200

chat_with_document(token, caller, d, answered) ==
  LET status == ChatStatus(token, caller, d, answered)
  IN /\ UNCHANGED <<users, files, content, blobs>>
     /\ resp' = Request("chat_with_document", token, None, caller, d, status,
                        IF status = 200 THEN "answer" ELSE None)
     /\ UNCHANGED <<now, quotaVars, flowVars, events>>

\* The summary of an extracted text (text "" gives the fixed sentence).
SummaryOf(full_text) ==
  IF full_text = "" THEN "No text could be extracted from this document."
  ELSE "summary"

\* file_doc_ref.update({'summary': ..., 'isChatReady': True, 'chatStatus': 'ready'})
ChatReady(file, summary) ==
  [file EXCEPT !.summary = summary, !.isChatReady = TRUE, !.chatStatus = "ready"]

\* db.collection('files').document(doc_id).update({'chatStatus': 'failed'});
\* update() of a document that does not exist raises and changes nothing.
ChatFailed(file) ==
  IF file.exists THEN [file EXCEPT !.chatStatus = "failed"] ELSE file

\* What the summary path of generate_doc_summary and prepare_chat_session
\* ends in for a FileRecord they may read: "cached" (isChatReady), "ready"
\* (text extracted, summarised and stored) or "raised".
SummaryOutcome(file_data, full_text, summarised) ==
  IF ~file_data.exists THEN "raised"
  ELSE IF file_data.isChatReady THEN "cached"
  ELSE IF file_data.pdfPath = NoPath THEN "raised"
  ELSE IF file_data.pdfPath \notin blobs THEN "raised"
  ELSE IF full_text = "" THEN "ready"
  ELSE IF ~summarised THEN "raised"
  ELSE "ready"

\* generate_doc_summary with a body that names documentId d: the body is
\* read first, then the header is checked (401 when missing); every
\* exception after doc_id is known, token verification included, reaches the
\* except clause, which marks the FileRecord failed and answers 500.
generate_doc_summary(token, caller, d, full_text, summarised) ==
  LET file_data == files[d]
      outcome ==
        IF token = "missing" THEN "unauthorized"
        ELSE IF AuthException(token) # None THEN "raised"
        ELSE IF ~file_data.exists THEN "raised"
        ELSE IF NotOwner(file_data, caller) THEN "forbidden"
        ELSE SummaryOutcome(file_data, full_text, summarised)
  IN /\ CASE outcome = "raised" ->
               /\ files' = [files EXCEPT ![d] = ChatFailed(@)]
               /\ UNCHANGED content
          [] outcome = "ready" ->
               /\ content' = [content EXCEPT ![d] =
                     [exists |-> TRUE, full_text |-> full_text]]
               /\ files' = [files EXCEPT ![d] = ChatReady(@, SummaryOf(full_text))]
          [] OTHER -> UNCHANGED <<files, content>>
     /\ UNCHANGED <<users, blobs>>
     /\ resp' = Request("generate_doc_summary", token, None, caller, d,
             CASE outcome = "unauthorized" -> 401
               [] outcome = "forbidden" -> 403
               [] outcome = "raised" -> 500
               [] OTHER -> 200,
             IF outcome \in {"cached", "ready"} THEN "summary" ELSE None)
     /\ UNCHANGED <<now, quotaVars, flowVars, events>>

AppCheckTokens == {"valid", "missing", "invalid"}

\* prepare_chat_session: the X-Firebase-AppCheck header is verified (401);
\* the Authorization header is not read and the FileRecord's userId is not
\* compared with anything.
prepare_chat_session(appCheck, token, caller, d, full_text, summarised) ==
  LET file_data == files[d]
      outcome == IF appCheck # "valid" THEN "unauthorized"
                 ELSE SummaryOutcome(file_data, full_text, summarised)
  IN /\ CASE outcome = "raised" ->
               /\ files' = [files EXCEPT ![d] = ChatFailed(@)]
               /\ UNCHANGED content
          [] outcome = "ready" ->
               /\ content' = [content EXCEPT ![d] =
                     [exists |-> TRUE, full_text |-> full_text]]
               /\ files' = [files EXCEPT ![d] = ChatReady(@, SummaryOf(full_text))]
          [] OTHER -> UNCHANGED <<files, content>>
     /\ UNCHANGED <<users, blobs>>
     /\ resp' = Request("prepare_chat_session", token, appCheck, caller, d,
             CASE outcome = "unauthorized" -> 401
               [] outcome = "raised" -> 500
               [] OTHER -> 200,
             IF outcome \in {"cached", "ready"} THEN "summary" ELSE None)
     /\ UNCHANGED <<now, quotaVars, flowVars, events>>

(* ------------------------------------------------------------------ *)
(* The Q&A requests, step by step (SpecChat)                           *)
(* ------------------------------------------------------------------ *)

\* The requests followed step by step are the ones that pass the checks of
\* their headers and, where the handler compares it, come from the owner.
QaHandlers == {"generate_doc_summary", "prepare_chat_session", "chat_with_document"}
SummaryHandlers == {"generate_doc_summary", "prepare_chat_session"}

\* gemini_response.text: what the generative API may answer.
Summaries == {"s1", "s2"}

\* chat_with_document's answer for a document without text.
NoTextAnswer == "I could not find any text content for this document."

\* file_data.get('summary', 'Summary not found.')
CachedSummary(file_data) ==
  IF file_data.summary = None THEN "Summary not found." ELSE file_data.summary

\* One request: its position, the handler, the documentId of its body, the
\* pdfPath it read, the text it extracted (or read, for chat), the summary
\* it is about to store, its HTTP status and payload, and what it did:
\*   ready      the FileRecord was chat-ready when the request read it
\*   stored     the summary the FileRecord held at that read
\*   extracted  it extracted the PDF's text
\*   called     it called the generative API
\*   setText    it set the DocumentContent
\*   overwrote  the DocumentContent existed when it set it
\*   wrote      it changed a FileRecord or a DocumentContent
\*   failedAt   the step that raised, None if none
\*   marked     the except clause set chatStatus to 'failed'
IdleSum ==
  [pc |-> "idle", handler |-> None, doc_id |-> 0, pdf_path |-> NoPath,
   full_text |-> None, summary |-> None, status |-> 0, data |-> None,
   ready |-> FALSE, stored |-> None, extracted |-> FALSE, called |-> FALSE,
   setText |-> FALSE, overwrote |-> FALSE, wrote |-> FALSE, failedAt |-> None,
   marked |-> FALSE]

\* raise ...: control goes to the except clause.
ReqRaise(r, step) == [r EXCEPT !.pc = "except", !.failedAt = step]

\* return (body, status, headers)
ReqRespond(r, status, data) ==
  [r EXCEPT !.pc = "done", !.status = status, !.data = data]

\* The body is parsed: doc_id is known from here on.
ReqStart(i, h, d) ==
  /\ sum[i].pc = "idle"
  /\ sum' = [sum EXCEPT ![i] =
        [IdleSum EXCEPT !.pc = "getFile", !.handler = h, !.doc_id = d]]
  /\ UNCHANGED <<now, dbVars, quotaVars, resp, pay, events, tmp, conv, thumbs, gen>>

\* file_doc_ref.get(): a missing record raises; a chat-ready record answers
\* a summary request with the stored summary; a record without pdfPath
\* raises.  chat_with_document goes on to the content.
ReqGetFile(i, dbOk) ==
  /\ sum[i].pc = "getFile"
  /\ LET r == sum[i]
         file_data == files[r.doc_id]
     IN sum' = [sum EXCEPT ![i] =
          IF ~dbOk \/ ~file_data.exists THEN ReqRaise(r, "getFile")
          ELSE LET q == [r EXCEPT !.ready = files[r.doc_id].isChatReady,
                                  !.stored = files[r.doc_id].summary]
               IN IF r.handler = "chat_with_document"
                  THEN [q EXCEPT !.pc = "getContent"]
                  ELSE IF file_data.isChatReady
                  THEN ReqRespond(q, 200, CachedSummary(file_data))
                  ELSE IF file_data.pdfPath = NoPath
                  THEN ReqRaise(q, "getFile")
                  ELSE [q EXCEPT !.pc = "download",
                                 !.pdf_path = file_data.pdfPath]]
  /\ UNCHANGED <<now, dbVars, quotaVars, resp, pay, events, tmp, conv, thumbs, gen>>

\* chat_with_document, lines 59-72: content_doc_ref.get(); no content
\* raises, an empty text is answered with the fixed sentence.
ReqGetContent(i, dbOk) ==
  /\ sum[i].pc = "getContent"
  /\ LET r == sum[i]
         content_doc == content[r.doc_id]
     IN sum' = [sum EXCEPT ![i] =
          IF ~dbOk \/ ~content_doc.exists THEN ReqRaise(r, "getContent")
          ELSE IF content_doc.full_text = ""
          THEN ReqRespond([r EXCEPT !.full_text = ""], 200, NoTextAnswer)
          ELSE [r EXCEPT !.pc = "generate", !.full_text = content_doc.full_text]]
  /\ UNCHANGED <<now, dbVars, quotaVars, resp, pay, events, tmp, conv, thumbs, gen>>

\* blob.download_as_bytes()
ReqDownload(i, ok) ==
  /\ sum[i].pc = "download"
  /\ LET r == sum[i]
     IN sum' = [sum EXCEPT ![i] =
          IF ok /\ r.pdf_path \in blobs THEN [r EXCEPT !.pc = "extract"]
          ELSE ReqRaise(r, "download")]
  /\ UNCHANGED <<now, dbVars, quotaVars, resp, pay, events, tmp, conv, thumbs, gen>>

\* PdfReader(...) and page.extract_text(): the text x, or an exception; a
\* blank text skips the generative call.
ReqExtract(i, ok, x) ==
  /\ sum[i].pc = "extract"
  /\ LET r == sum[i]
     IN sum' = [sum EXCEPT ![i] =
          IF ~ok THEN ReqRaise(r, "extract")
          ELSE IF x = ""
          THEN [r EXCEPT !.pc = "set", !.extracted = TRUE, !.full_text = "",
                         !.summary = SummaryOf("")]
          ELSE [r EXCEPT !.pc = "generate", !.extracted = TRUE,
                         !.full_text = x]]
  /\ UNCHANGED <<now, dbVars, quotaVars, resp, pay, events, tmp, conv, thumbs, gen>>

\* model.generate_content(prompt): the API is called and answers s, or the
\* call raises.  chat_with_document returns the answer.
ReqGenerate(i, ok, s) ==
  /\ sum[i].pc = "generate"
  /\ LET r == [sum[i] EXCEPT !.called = TRUE]
     IN sum' = [sum EXCEPT ![i] =
          IF ~ok THEN ReqRaise(r, "generate")
          ELSE IF r.handler = "chat_with_document"
          THEN ReqRespond(r, 200, "answer")
          ELSE [r EXCEPT !.pc = "set", !.summary = s]]
  /\ UNCHANGED <<now, dbVars, quotaVars, resp, pay, events, tmp, conv, thumbs, gen>>

\* db.collection('document_content').document(doc_id).set({'full_text': ...})
ReqSetContent(i, dbOk) ==
  /\ sum[i].pc = "set"
  /\ LET r == sum[i]
     IN IF dbOk
        THEN /\ content' = [content EXCEPT ![r.doc_id] =
                   [exists |-> TRUE, full_text |-> r.full_text]]
             /\ sum' = [sum EXCEPT ![i] =
                   [r EXCEPT !.pc = "update", !.setText = TRUE, !.wrote = TRUE,
                             !.overwrote = content[r.doc_id].exists]]
        ELSE /\ sum' = [sum EXCEPT ![i] = ReqRaise(r, "set")]
             /\ UNCHANGED content
  /\ UNCHANGED <<now, users, files, blobs, quotaVars, resp, pay, events, tmp, conv, thumbs, gen>>

\* file_doc_ref.update({'summary': ..., 'isChatReady': True, 'chatStatus': 'ready'})
ReqUpdate(i, dbOk) ==
  /\ sum[i].pc = "update"
  /\ LET r == sum[i]
     IN IF CanUpdate(r.doc_id, dbOk)
        THEN /\ files' = [files EXCEPT ![r.doc_id] = ChatReady(@, r.summary)]
             /\ sum' = [sum EXCEPT ![i] = ReqRespond(r, 200, r.summary)]
        ELSE /\ sum' = [sum EXCEPT ![i] = ReqRaise(r, "update")]
             /\ UNCHANGED files
  /\ UNCHANGED <<now, users, content, blobs, quotaVars, resp, pay, events, tmp, conv, thumbs, gen>>

\* The except clause: the summary handlers update chatStatus to 'failed'
\* (generate_doc_summary swallows a failure of that update, from
\* prepare_chat_session it leaves the handler); the answer is 500 on each
\* path.  chat_with_document answers 500 and writes nothing.
ReqExcept(i, dbOk) ==
  /\ sum[i].pc = "except"
  /\ LET r == sum[i]
     IN IF r.handler \in SummaryHandlers /\ CanUpdate(r.doc_id, dbOk)
        THEN /\ files' = [files EXCEPT ![r.doc_id] = ChatFailed(@)]
             /\ sum' = [sum EXCEPT ![i] =
                   ReqRespond([r EXCEPT !.marked = TRUE, !.wrote = TRUE], 500, None)]
        ELSE /\ sum' = [sum EXCEPT ![i] = ReqRespond(r, 500, None)]
             /\ UNCHANGED files
  /\ UNCHANGED <<now, users, content, blobs, quotaVars, resp, pay, events, tmp, conv, thumbs, gen>>

\* The response is sent: the request is over.
ReqDone(i) ==
  /\ sum[i].pc = "done"
  /\ sum' = [sum EXCEPT ![i] = IdleSum]
  /\ UNCHANGED <<now, dbVars, quotaVars, resp, pay, events, tmp, conv, thumbs, gen>>

\* create_subscription_order: any exception, the authentication ones
\* included, is answered 500; created tells whether the gateway made the
\* order.
create_subscription_order(token, caller, created) ==
  LET failed == AuthException(token) # None \/ ~created
  IN /\ UNCHANGED <<users, files, content, blobs>>
     /\ resp' = Request("create_subscription_order", token, None, caller, 0,
                        IF failed THEN 500 ELSE 200,
                        IF failed THEN None ELSE "order")
     /\ UNCHANGED <<now, quotaVars, flowVars, events>>

\* verify_payment: on success the subscription fields are merged into the
\* caller's profile.
verify_payment(token, caller, order_id, pid, signature, dbOk) ==
  LET status == VerifyPaymentStatus(token, order_id, pid, signature, dbOk)
  IN /\ IF status = 200
        THEN users' = [users EXCEPT ![caller] =
                         SubscribedProfile(@, order_id, pid, now)]
        ELSE UNCHANGED users
     /\ UNCHANGED <<files, content, blobs>>
     /\ resp' = Request("verify_payment", token, None, caller, 0, status,
                        IF status = 200 THEN "success" ELSE None)
     /\ UNCHANGED <<now, quotaVars, flowVars, events>>

(* ------------------------------------------------------------------ *)
(* Specifications                                                      *)
(* ------------------------------------------------------------------ *)

Init ==
  /\ now = 0
  /\ users = [u \in Uids |-> NoProfile]
  /\ files = [d \in DocIds |-> NoFile]
  /\ content = [d \in DocIds |-> NoContent]
  /\ blobs = {}
  /\ upload_cache = [u \in Uids |-> NoEntry]
  /\ inv = [i \in Slots |-> IdleInv]
  /\ lastWriter = [u \in Uids |-> 0]
  /\ overlapped = [u \in Uids |-> FALSE]
  /\ profileWrites = [u \in Uids |-> 0]
  /\ resp = NoResp
  /\ tmp = {}
  /\ conv = [i \in ConvSlots |-> IdleConv]
  /\ thumbs = {}
  /\ gen = IdleGen
  /\ sum = [i \in Slots |-> IdleSum]
  /\ pay = IdlePay
  /\ events = {}

\* The requests of SpecQuota: one caller, with a good or a bad token.
QuotaCallers == {"u1"}
QuotaTokens == {"valid", "invalid"}

QuotaNext ==
  \/ \E i \in Slots, u \in QuotaCallers, t \in QuotaTokens : Start(i, u, t)
  \/ \E i \in Slots, ok \in BOOLEAN : GetUser(i, ok)
  \/ \E i \in Slots, ok \in BOOLEAN : SetUser(i, ok)
  \/ \E i \in Slots : CacheNew(i)
  \/ \E i \in Slots : CacheIn(i)
  \/ \E i \in Slots : CacheLoad(i)
  \/ \E i \in Slots : CacheDel(i)
  \/ \E i \in Slots, ok \in BOOLEAN : Query(i, ok)
  \/ \E i \in Slots : CachePut(i)
  \/ \E i \in Slots : Return(i)
  \/ \E u \in Uids : Upload(u, "a", ".jpg")
  \/ \E u \in QuotaCallers : PaymentLands(u)
  \/ AdvanceTime

SpecQuota == Init /\ [][QuotaNext]_vars

\* The requests of Spec.  One user uploads, naming every object differently
\* from the objects in the bucket; the other user is the one who asks for
\* upload allowance and pays.  Every document request names a documentId.
Uploaders == {"u1"}
Subscribers == {"u2"}
Bases == {"a"}
Exts == {".jpg"}
Texts == {"", "text"}

UploadNew(uid, base, ext) ==
  /\ Path("uploads", uid, base, ext) \notin blobs
  /\ Upload(uid, base, ext)

Next ==
  \/ \E u \in Uploaders, b \in Bases, e \in Exts : UploadNew(u, b, e)
  \/ \E d \in DocIds, ok \in BOOLEAN : process_file_to_pdf(d, ok)
  \/ \E t \in Tokens, u \in Subscribers : check_upload_allowance(t, u)
  \/ \E t \in Tokens, u \in Uids, d \in DocIds : delete_file(t, u, d)
  \/ \E t \in Tokens, u \in Uids, d \in DocIds : get_download_url(t, u, d)
  \/ \E t \in Tokens, u \in Uids, d \in DocIds, ok \in BOOLEAN :
        chat_with_document(t, u, d, ok)
  \/ \E t \in Tokens, u \in Uids, d \in DocIds, x \in Texts, ok \in BOOLEAN :
        generate_doc_summary(t, u, d, x, ok)
  \/ \E a \in AppCheckTokens, t \in Tokens, u \in Uids, d \in DocIds,
         x \in Texts, ok \in BOOLEAN :
        prepare_chat_session(a, t, u, d, x, ok)
  \/ \E t \in Tokens, u \in Subscribers, ok \in BOOLEAN :
        create_subscription_order(t, u, ok)
  \/ \E t \in Tokens, u \in Subscribers, o \in OrderIds, p \in PaymentIds,
         s \in Signatures, ok \in BOOLEAN :
        verify_payment(t, u, o, p, s, ok)

Spec == Init /\ [][Next]_vars

\* Document ids are never reused: an upload gets an id that no handler still
\* in flight read from an event or a request.
UploadFresh(uid, base, ext) ==
  /\ \A i \in ConvSlots : conv[i].doc_id \notin FreeIds
  /\ gen.document_id \notin FreeIds
  /\ \A i \in Slots : sum[i].doc_id \notin FreeIds
  /\ UploadNew(uid, base, ext)

\* The steps of the invocation in slot i for a file that has a converter;
\* every object of the bucket may be delivered, and delivered again.
ConvHandled(i) ==
  \/ \E p \in blobs : ConvStart(i, p)
  \/ \E ok \in BOOLEAN :
        \/ ConvReload(i, ok)
        \/ ConvCheckDoc(i, ok)
        \/ \E left \in BOOLEAN : ConvDownload(i, ok, left)
        \/ ConvConvert(i, ok)
        \/ ConvUpload(i, ok)
        \/ ConvComplete(i, ok)
        \/ ConvError(i, ok)
  \/ ConvFinally(i)
  \/ ConvDone(i)

\* The events of SpecConv.  One user uploads a convertible file and may
\* delete it; its events reach two concurrent invocations of
\* process_file_to_pdf.
ConvNext ==
  \/ \E u \in Uploaders, b \in Bases, e \in Exts : UploadFresh(u, b, e)
  \/ \E u \in Uploaders, d \in DocIds : delete_file("valid", u, d)
  \/ \E i \in ConvSlots : ConvHandled(i)

SpecConv == Init /\ [][ConvNext]_vars

\* The events of SpecEvents.  One user uploads a convertible and an
\* unconvertible file and may delete them; objects are also put in the
\* bucket without a FileRecord, under uploads/ and elsewhere; the events
\* reach one invocation of process_file_to_pdf at a time.
ConvExts == {".jpg", ".gif"}
ForeignPaths == {Path("uploads", "u1", "x", ".jpg"), Path("exports", "u1", "x", ".jpg")}

\* An object put in the bucket without the firestoreDocId metadata.
PutObject(path) ==
  /\ path \notin blobs
  /\ blobs' = blobs \cup {path}
  /\ resp' = NoResp
  /\ UNCHANGED <<now, users, files, content, quotaVars, flowVars, events>>

EventNext ==
  \/ \E u \in Uploaders, b \in Bases, e \in ConvExts : UploadFresh(u, b, e)
  \/ \E p \in ForeignPaths : PutObject(p)
  \/ \E u \in Uploaders, d \in DocIds : delete_file("valid", u, d)
  \/ ConvHandled(1)
  \/ \E ok \in BOOLEAN : ConvUnsupported(1, ok)

SpecEvents == Init /\ [][EventNext]_vars

\* The events of SpecThumb.  Two users upload a file of the same name and
\* may delete it; the uploads are converted by one invocation of
\* process_file_to_pdf at a time, none of whose calls fails unless the
\* object or the record it needs is gone, and every object of the bucket
\* may be delivered, more than once, to generate_pdf_thumbnail.
ThumbUploaders == {"u1", "u2"}

ConvUnfailing(i) ==
  \/ \E p \in blobs : ConvStart(i, p)
  \/ ConvReload(i, TRUE)
  \/ ConvCheckDoc(i, TRUE)
  \/ ConvDownload(i, TRUE, FALSE)
  \/ ConvConvert(i, TRUE)
  \/ ConvUpload(i, TRUE)
  \/ ConvComplete(i, TRUE)
  \/ ConvError(i, TRUE)
  \/ ConvFinally(i)
  \/ ConvDone(i)

ThumbNext ==
  \/ \E u \in ThumbUploaders, b \in Bases, e \in Exts : UploadFresh(u, b, e)
  \/ \E u \in ThumbUploaders, d \in DocIds : delete_file("valid", u, d)
  \/ ConvUnfailing(1)
  \/ \E p \in blobs : GenStart(p)
  \/ \E ok \in BOOLEAN :
        \/ GenLookup(ok)
        \/ GenDownload(ok)
        \/ GenRender(ok)
        \/ GenUpload(ok)
        \/ GenUpdate(ok)
  \/ GenDone

SpecThumb == Init /\ [][ThumbNext]_vars

\* The requests of SpecChat.  One user uploads a file, which is converted;
\* two requests at a time, each of any of the three Q&A handlers, are
\* served for a documentId.
ChatNext ==
  \/ \E u \in Uploaders, b \in Bases, e \in Exts : UploadFresh(u, b, e)
  \/ \E d \in DocIds, ok \in BOOLEAN : process_file_to_pdf(d, ok)
  \/ \E i \in Slots :
        \/ \E h \in QaHandlers, d \in DocIds : ReqStart(i, h, d)
        \/ \E ok \in BOOLEAN :
              \/ ReqGetFile(i, ok)
              \/ ReqGetContent(i, ok)
              \/ ReqDownload(i, ok)
              \/ \E x \in Texts : ReqExtract(i, ok, x)
              \/ \E s \in Summaries : ReqGenerate(i, ok, s)
              \/ ReqSetContent(i, ok)
              \/ ReqUpdate(i, ok)
              \/ ReqExcept(i, ok)
        \/ ReqDone(i)

SpecChat == Init /\ [][ChatNext]_vars

\* The requests of SpecPay.  Both users ask for upload allowance, which
\* creates their profiles, and send verify_payment requests, one at a time,
\* for every order id, payment id and signature.
PayNext ==
  \/ \E t \in Tokens, u \in Uids : check_upload_allowance(t, u)
  \/ \E t \in Tokens, u \in Uids, o \in OrderIds, p \in PaymentIds,
         s \in Signatures : PayStart(t, u, o, p, s)
  \/ \E ok \in BOOLEAN : PayFetch(ok)
  \/ \E ok \in BOOLEAN : PaySet(ok)
  \/ PayDone

SpecPay == Init /\ [][PayNext]_vars

\* The upload with its notifications.
UploadNotified(uid, base, ext) ==
  /\ Path("uploads", uid, base, ext) \notin blobs
  /\ PutUpload(uid, base, ext)
  /\ events' = events \cup Finalized(Path("uploads", uid, base, ext))

\* The events of SpecNotify.  Two users upload a file of the same name; every
\* write of an object notifies both functions once, each notification starts
\* one invocation, no call of an invocation fails and nothing is deleted.
NotifySteps ==
  \/ \E e \in events : ConvNotified(1, e.path)
  \/ ConvReload(1, TRUE)
  \/ ConvCheckDoc(1, TRUE)
  \/ ConvDownload(1, TRUE, FALSE)
  \/ ConvConvert(1, TRUE)
  \/ ConvUploadNotified(1)
  \/ ConvComplete(1, TRUE)
  \/ ConvFinally(1)
  \/ ConvDone(1)
  \/ \E e \in events : GenNotified(e.path)
  \/ GenLookup(TRUE)
  \/ GenDownload(TRUE)
  \/ GenRender(TRUE)
  \/ GenUploadNotified
  \/ GenUpdate(TRUE)
  \/ GenDone

NotifyNext ==
  \/ \E u \in ThumbUploaders, b \in Bases, e \in Exts : UploadNotified(u, b, e)
  \/ NotifySteps

\* The platform delivers every notification and runs every invocation to
\* its end.
SpecNotify == Init /\ [][NotifyNext]_vars /\ WF_vars(NotifySteps)

(* ------------------------------------------------------------------ *)
(* Quota Tracker properties (SpecQuota)                                *)
(* ------------------------------------------------------------------ *)

\* An invocation that answered with a decision after reading a profile that
\* exists and is not subscribed.
Decided(i) ==
  /\ Done(i)
  /\ inv[i].status = 200
  /\ inv[i].user_doc = "free"

\* C4 as stated: a non-subscribed caller with an existing profile is
\* allowed if and only if the number N of its FileRecords uploaded in the
\* trailing 7 days is below the limit L, for every check after any earlier
\* checks and uploads (N taken when the check obtains its count).
C4_AllowIffRecentUploadsBelowLimit ==
  \A i \in Slots :
    Decided(i) => (inv[i].allow = "true" <=> inv[i].underThen)

\* C4 amended: the check allows if and only if the count it uses is below
\* the limit; a check that queries the database uses N (so it allows iff
\* N < L and denies at N = L), a check that finds a cache entry younger than
\* 5 minutes uses the cached count, whatever N is by then.
C4_AllowIffUsedCountBelowLimit ==
  \A i \in Slots :
    Decided(i) =>
      /\ inv[i].source \in {"db", "cache"}
      /\ inv[i].allow = "true" <=> inv[i].upload_count < FREE_TIER_LIMIT
      /\ inv[i].source = "db" => (inv[i].allow = "true" <=> inv[i].underThen)

\* A check that allowed on a cached count when the true count had reached
\* the limit.
C4_StaleAllowReached ==
  \E i \in Slots :
    /\ Decided(i)
    /\ inv[i].source = "cache"
    /\ inv[i].allow = "true"
    /\ ~inv[i].underThen

\* C5: a check that read a profile with isSubscribed true answers allow,
\* whatever the caller's upload count and cache entry are, and has neither
\* read nor written the cache (nor queried the files collection).
C5_SubscribedAllowedWithoutCache ==
  \A i \in Slots :
    Done(i) /\ inv[i].user_doc = "subscribed" =>
      /\ inv[i].status = 200
      /\ inv[i].allow = "true"
      /\ ~inv[i].cacheRead
      /\ ~inv[i].cacheWrote
      /\ ~inv[i].queried

\* A subscribed caller was answered while over the limit and while the
\* cache held a count that would deny.
C5_SubscribedOverLimitReached ==
  \E i \in Slots :
    /\ Done(i)
    /\ inv[i].user_doc = "subscribed"
    /\ TrueCount(inv[i].uid) >= FREE_TIER_LIMIT
    /\ upload_cache[inv[i].uid].present
    /\ upload_cache[inv[i].uid].count >= FREE_TIER_LIMIT

\* C6: a check that found no profile (and whose database calls succeeded)
\* answers allow and has set the default profile; as long as the caller's
\* checks do not overlap, the profile is written at most once, by the check
\* that found it absent, and never by a check that found it present.
C6_ProfileCreatedOnceWhenSequential ==
  \A i \in Slots :
    LET r == inv[i] IN
    /\ Done(i) /\ r.user_doc = "absent" /\ ~DbFailed(r) =>
         /\ r.status = 200 /\ r.allow = "true"
         /\ r.wroteAt # NoTime
         /\ profileWrites[r.uid] >= 1
         /\ users[r.uid].exists
         /\ lastWriter[r.uid] = i /\ users[r.uid].paymentId = None =>
               users[r.uid] = DefaultProfile(EmailOf(r.uid), r.wroteAt)
    /\ r.user_doc \in {"free", "subscribed"} => r.wroteAt = NoTime
    /\ \A u \in Uids : ~overlapped[u] => profileWrites[u] <= 1

\* A first check has created the profile and answered, with no other check
\* of the caller in flight before or during it.
C6_FirstCheckReached ==
  \E i \in Slots :
    /\ Done(i)
    /\ inv[i].user_doc = "absent"
    /\ inv[i].allow = "true"
    /\ ~overlapped[inv[i].uid]
    /\ profileWrites[inv[i].uid] = 1
    /\ users[inv[i].uid] = DefaultProfile(EmailOf(inv[i].uid), inv[i].wroteAt)

\* The step in which invocation i answers with a decision.
Answers(i) == Running(i) /\ inv'[i].pc = "done" /\ inv'[i].status = 200

\* C7 as stated: whenever a check answers while the cache holds a count for
\* the caller, written less than 5 minutes ago, it has not queried the files
\* collection and its decision is the one the cached count gives; when the
\* entry is 5 minutes old or older, it has queried the database and written
\* the entry again (checks of the caller not overlapping).
C7_CacheRoundTrip ==
  [][\A i \in Slots :
       LET entry == upload_cache[inv[i].uid] IN
       Answers(i) /\ ~overlapped[inv[i].uid] /\ entry.present =>
         IF now - WrittenAt(entry) < CACHE_TTL_MINUTES
         THEN /\ ~inv'[i].queried
              /\ inv'[i].allow = "true" <=> entry.count < FREE_TIER_LIMIT
         ELSE inv'[i].queried /\ inv'[i].cacheWrote]_vars

\* C7 amended, for a caller whose profile exists and is not subscribed: a
\* check that reads a cache entry written less than 5 minutes before
\* answers without querying the files collection or writing the cache, and
\* allows iff the cached count is below the limit; a check that reads an
\* entry 5 minutes old or older answers a decision only after it has queried
\* the database and written the entry again.
C7_CacheRoundTripForFreeCallers ==
  \A i \in Slots :
    LET r == inv[i] IN
    /\ r.found # "none" => r.user_doc = "free"
    /\ Done(i) /\ r.found = "young" =>
         /\ r.status = 200
         /\ r.source = "cache"
         /\ ~r.queried /\ ~r.cacheWrote
         /\ r.allow = "true" <=> r.upload_count < FREE_TIER_LIMIT
    /\ r.found = "old" =>
         /\ r.source # "cache"
         /\ r.status = 200 =>
               r.queried /\ r.cacheWrote /\ r.source = "db"

\* Both halves happened: a check found the entry 5 minutes old or older and
\* answered after querying the database and writing the entry again, and
\* the next check answered from the entry it wrote.
C7_HitAndExpiryReached ==
  \E i, j \in Slots :
    /\ Done(i) /\ inv[i].status = 200
    /\ inv[i].found = "old" /\ inv[i].queried /\ inv[i].cacheWrote
    /\ Done(j) /\ inv[j].status = 200
    /\ inv[j].found = "young" /\ inv[j].source = "cache"
    /\ upload_cache[inv[i].uid].present
    /\ WrittenAt(upload_cache[inv[i].uid]) = now
    /\ now >= CACHE_TTL_MINUTES

\* C8: two checks of one caller that both found the profile absent (and
\* whose database calls succeeded) both answer allow without error, both
\* have written, and the stored profile is the default profile of the one
\* whose write landed last (with the subscription fields of a payment
\* verified since, if any).
C8_BothFirstChecksAllowedLastWriteWins ==
  \A i, j \in Slots :
    LET a == inv[i]
        b == inv[j]
    IN i # j /\ Done(i) /\ Done(j) /\ a.uid = b.uid
       /\ a.user_doc = "absent" /\ b.user_doc = "absent"
       /\ ~DbFailed(a) /\ ~DbFailed(b) =>
         /\ a.status = 200 /\ a.allow = "true" /\ a.error = None
         /\ b.status = 200 /\ b.allow = "true" /\ b.error = None
         /\ a.wroteAt # NoTime /\ b.wroteAt # NoTime
         /\ lastWriter[a.uid] \in {i, j}
         /\ users[a.uid].accountCreated = inv[lastWriter[a.uid]].wroteAt
         /\ users[a.uid].paymentId = None =>
              users[a.uid] =
                DefaultProfile(EmailOf(a.uid), inv[lastWriter[a.uid]].wroteAt)

\* Two such checks finished, their writes at different times.
C8_RaceReached ==
  \E i, j \in Slots :
    /\ i # j /\ Done(i) /\ Done(j) /\ inv[i].uid = inv[j].uid
    /\ inv[i].user_doc = "absent" /\ inv[j].user_doc = "absent"
    /\ inv[i].allow = "true" /\ inv[j].allow = "true"
    /\ inv[i].wroteAt < inv[j].wroteAt
    /\ lastWriter[inv[i].uid] = j
    /\ users[inv[i].uid] = DefaultProfile(EmailOf(inv[i].uid), inv[j].wroteAt)

\* C9 as stated: no interleaving of two checks of one caller makes a check
\* fail on the cache, and the entry a check wrote stays until a later write.
C9_CacheRaceBenign ==
  \A i \in Slots : inv[i].error # "KeyError"

\* C10: a check one of whose database calls failed answers 500 with no
\* allow decision and has written no cache entry.
C10_DbFailureIsInternalError ==
  \A i \in Slots :
    DbFailed(inv[i]) =>
      /\ Done(i)
      /\ inv[i].status = 500
      /\ inv[i].allow = None
      /\ ~inv[i].cacheWrote

\* The files query failed after the check had removed an expired entry.
C10_QueryFailureReached ==
  \E i \in Slots :
    /\ DbFailed(inv[i])
    /\ inv[i].found = "old"
    /\ ~upload_cache[inv[i].uid].present

(* ------------------------------------------------------------------ *)
(* Access Gate properties (Spec)                                       *)
(* ------------------------------------------------------------------ *)

Handled == resp.handler # None

\* C1 as stated: every request whose bearer token is missing or fails
\* verification is answered with HTTP status 401, whatever the handler.
C1_BadTokenAnswered401 ==
  Handled /\ resp.token \in BadTokens => resp.status = 401

\* C2 as stated: a request whose bearer token is missing or fails
\* verification changes no collection and no storage object (so
\* generate_doc_summary with an invalid token leaves every FileRecord, its
\* chatStatus included, as it was).
C2_BadTokenWritesNothing ==
  Handled /\ resp.token \in BadTokens => ~resp.wrote

DocumentScoped ==
  {"delete_file", "get_download_url", "chat_with_document",
   "generate_doc_summary", "prepare_chat_session"}

\* C3 as stated: a document-scoped request of an authenticated caller for a
\* FileRecord whose stored userId is another user's is answered 403, carries
\* no document data and changes nothing.
C3_NonOwnerForbiddenWithoutEffect ==
  /\ Handled
  /\ resp.handler \in DocumentScoped
  /\ resp.token = "valid"
  /\ resp.appCheck \in {None, "valid"}
  /\ resp.owner \notin {None, resp.caller}
  => /\ resp.status = 403
     /\ resp.data = None
     /\ ~resp.wrote


(* ------------------------------------------------------------------ *)
(* Conversion Pipeline properties (SpecConv, SpecEvents)               *)
(* ------------------------------------------------------------------ *)

\* The statuses the conversion ends in.
TerminalStatuses == {"Completed", "Error", "Unsupported file type"}

\* C11: a FileRecord that reached Completed, Error or Unsupported never
\* moves to a different status, however often, and with whatever failures,
\* its event is delivered to process_file_to_pdf.
C11_TerminalStatusNeverChanges ==
  [][\A d \in DocIds :
        (/\ files[d].exists
         /\ files'[d].exists
         /\ files[d].status \in TerminalStatuses)
        => files'[d].status = files[d].status]_vars


\* C12: an invocation sets the FileRecord Completed only after it uploaded
\* the PDF to processed/{ownerId}/{baseName}.pdf, with pdfPath exactly that
\* path; an exception of the download, the conversion or the upload leads
\* to the except clause, whose update sets status Error and the exception's
\* message (a failure of that update itself is swallowed), and such an
\* invocation never sets Completed.
C12_CompletedOnlyAfterUpload ==
  [][\A i \in ConvSlots :
        LET r == conv[i]
            q == conv'[i]
            d == r.doc_id
            pdf == Path("processed", files[d].userId, r.path.base, ".pdf")
        IN /\ (d # 0 /\ r.wrote # "Completed" /\ q.wrote = "Completed")
              => /\ r.uploaded /\ r.exc = None
                 /\ pdf \in blobs
                 /\ files'[d].status = "Completed"
                 /\ files'[d].pdfPath = pdf
           /\ (r.exc = None /\ q.exc # None)
              => /\ q.pc = "error"
                 /\ q.exc \in {"download failed", "conversion failed", "upload failed"}
           /\ (r.pc = "error" /\ q.pc # "error")
              => /\ q.wrote # "Completed"
                 /\ \/ q.updFailed
                    \/ /\ files'[d].status = "Error"
                       /\ files'[d].errorMessage = r.exc
           /\ (r.exc # None) => r.wrote # "Completed"]_vars

\* C12 happens: one invocation completed the record after its upload while
\* another one, whose conversion raised, set it to Error.
C12_CompletedAndErrorReached ==
  \E i, j \in ConvSlots :
     /\ conv[i].wrote = "Completed" /\ conv[i].uploaded
     /\ conv[j].exc = "conversion failed" /\ conv[j].wrote = "Error"


\* What an invocation that ignores its event has done: nothing.
NoEffect(r) ==
  /\ r.wrote = None /\ r.pdfSet = NoPath /\ ~r.updFailed
  /\ ~r.downloaded /\ ~r.invoked /\ ~r.uploaded

\* C13: process_file_to_pdf ignores an event, with no database write, no
\* storage write and no converter invoked, when the path contains
\* processed/ or does not start with uploads/ (it returns at once), when the
\* object carries no firestoreDocId metadata, and when the metadata names a
\* FileRecord that does not exist.
C13_IgnoredEventsHaveNoEffect ==
  \A i \in ConvSlots :
     LET r == conv[i]
     IN /\ (r.pc # "idle" /\ ("processed" \in {r.path.dir, r.path.uid}
                               \/ r.path.dir # "uploads"))
           => r.pc = "returned" /\ r.ignored # None /\ NoEffect(r)
        /\ (r.pc # "idle" /\ r.path \in ForeignPaths) => NoEffect(r)
        /\ (r.ignored # None) => r.pc = "returned" /\ NoEffect(r)

\* C13 happens: the FileRecord was deleted after the event's object was
\* read, and the invocation returned.
C13_DeletedRecordIgnoredReached ==
  \E i \in ConvSlots :
     /\ conv[i].pc = "returned" /\ conv[i].ignored = "noRecord"
     /\ ~files[conv[i].doc_id].exists


\* C14: for a file whose extension has no registered handler the invocation
\* downloads nothing, invokes no converter and uploads no PDF; once it has
\* found the FileRecord it updates the status to 'Unsupported file type'
\* (a failure of that update is swallowed) and returns.
C14_UnsupportedTypeMarkedOnly ==
  \A i \in ConvSlots :
     LET r == conv[i]
         d == r.doc_id
     IN (r.pc # "idle" /\ r.path.ext \notin FILE_HANDLERS)
        => /\ ~r.downloaded /\ ~r.invoked /\ ~r.uploaded
           /\ r.wrote \in {None, "Unsupported file type"}
           /\ r.unsupported => r.pc \in {"unsupported", "returned"}
           /\ (r.unsupported /\ r.pc = "returned" /\ ~r.updFailed)
              => /\ r.wrote = "Unsupported file type"
                 /\ files[d].exists => files[d].status = "Unsupported file type"

\* C14 happens: the record of an uploaded .gif was marked unsupported.
C14_UnsupportedMarkedReached ==
  \E i \in ConvSlots :
     /\ conv[i].pc = "returned" /\ conv[i].path.ext = ".gif"
     /\ conv[i].wrote = "Unsupported file type"
     /\ files[conv[i].doc_id].status = "Unsupported file type"


\* C15: process_file_to_pdf and generate_pdf_thumbnail never propagate a
\* failure to their trigger: whatever storage, database or converter call
\* fails, the invocation returns normally.
C15_HandlersReturnNormally ==
  /\ \A i \in ConvSlots : conv[i].pc # "raised"
  /\ gen.pc # "raised"


\* C16: on every exit path of process_file_to_pdf that downloaded the input
\* (the handler ends only by returning once it has downloaded), the file
\* /tmp/{fileName} does not exist when the handler returns.
C16_TempFileRemovedOnExit ==
  \A i \in ConvSlots :
     LET r == conv[i]
     IN /\ (r.pc = "returned" /\ r.downloaded) => ~r.tmpLeft
        /\ (r.pc = "raised") => ~r.downloaded

\* C16 happens: an invocation whose converter raised after the download
\* has returned.
C16_FailedAfterDownloadReached ==
  \E i \in ConvSlots :
     /\ conv[i].pc = "returned" /\ conv[i].downloaded
     /\ conv[i].exc = "conversion failed"


(* ------------------------------------------------------------------ *)
(* Thumbnail Generator properties (SpecThumb)                          *)
(* ------------------------------------------------------------------ *)

\* C17: when the FileRecord of a processed PDF no longer exists as
\* generate_pdf_thumbnail handles the PDF's event, the invocation skips: it
\* creates no thumbnail object and updates no record.
C17_MissingRecordSkipped ==
  gen.ownGone => ~gen.uploaded /\ gen.updated = 0


(* ------------------------------------------------------------------ *)
(* Q&A properties (SpecChat)                                           *)
(* ------------------------------------------------------------------ *)

\* C18: the DocumentContent of a document is computed at most once, first
\* write wins: of the summary requests for one document in which nothing
\* raised at most one extracts the text and calls the generative API, and
\* no request sets a DocumentContent that is already stored.
C18_ContentComputedOnce ==
  /\ \A i \in Slots : ~sum[i].overwrote
  /\ \A i, j \in Slots :
        (/\ i # j
         /\ sum[i].doc_id = sum[j].doc_id
         /\ sum[i].handler \in SummaryHandlers
         /\ sum[j].handler \in SummaryHandlers
         /\ sum[i].failedAt = None /\ sum[j].failedAt = None)
        => /\ ~(sum[i].extracted /\ sum[j].extracted)
           /\ ~(sum[i].called /\ sum[j].called)


\* A request that found the document chat-ready and has been answered.
ServedReady(i) == sum[i].pc = "done" /\ sum[i].ready

C20_FailureLeavesNoText ==
  \A i \in Slots :
     LET r == sum[i]
     IN (r.handler \in SummaryHandlers /\ r.pc = "done" /\ r.failedAt # None)
        => /\ r.status = 500
           /\ ~(/\ r.setText /\ r.full_text # ""
                /\ content[r.doc_id].exists
                /\ content[r.doc_id].full_text = r.full_text)


\* C21: a summary request whose extraction yields no text never calls the
\* generative API; its content write stores an empty DocumentContent and
\* its record update stores the fixed placeholder summary and marks the
\* record chat-ready, the placeholder being the answer.  chat_with_document
\* that reads an empty DocumentContent answers 200 with its fixed sentence
\* and does not call the generative API.
C21_NoTextNoGenerativeCall ==
  [][\A i \in Slots :
        LET r == sum[i]
            q == sum'[i]
            d == r.doc_id
            placeholder == "No text could be extracted from this document."
        IN /\ (r.handler \in SummaryHandlers /\ r.extracted /\ r.full_text = "")
              => /\ ~q.called
                 /\ q.pc \in {"set", "update", "except", "done", "idle"}
                 /\ (r.pc = "set" /\ q.pc = "update")
                    => content'[d] = [exists |-> TRUE, full_text |-> ""]
                 /\ (r.pc = "update" /\ q.pc = "done")
                    => /\ files'[d].isChatReady
                       /\ files'[d].summary = placeholder
                       /\ files'[d].chatStatus = "ready"
                       /\ q.status = 200 /\ q.data = placeholder
           /\ (/\ r.handler = "chat_with_document"
               /\ r.pc = "getContent" /\ q.pc = "done"
               /\ content[d].exists /\ content[d].full_text = "")
              => /\ q.status = 200 /\ q.data = NoTextAnswer
                 /\ ~q.called
                 /\ UNCHANGED <<files, content>>]_vars

\* C21 happens: a summary request stored the placeholder for a document
\* without text and a chat request on that document got the fixed answer.
C21_PlaceholderServedReached ==
  \E i, j \in Slots :
     /\ sum[i].handler \in SummaryHandlers /\ sum[i].pc = "done"
     /\ sum[i].extracted /\ sum[i].full_text = "" /\ sum[i].status = 200
     /\ sum[j].handler = "chat_with_document" /\ sum[j].pc = "done"
     /\ sum[j].data = NoTextAnswer
     /\ sum[i].doc_id = sum[j].doc_id
     /\ content[sum[i].doc_id] = [exists |-> TRUE, full_text |-> ""]


(* ------------------------------------------------------------------ *)
(* Subscription properties (SpecQuota, SpecPay)                        *)
(* ------------------------------------------------------------------ *)

\* C25: once verify_payment has made a user subscribed, no step of
\* check_upload_allowance, its on-demand profile creation included, resets
\* isSubscribed or drops the payment fields of the profile.
C25_SubscriptionKept ==
  [][\A u \in Uids :
        (users[u].isSubscribed /\ users[u].paymentId # None)
        => /\ users'[u].isSubscribed
           /\ users'[u].paymentId = users[u].paymentId
           /\ users'[u].paymentOrderId = users[u].paymentOrderId]_vars


\* C22: verify_payment answers an authenticated request whose
\* razorpay_signature does not match its order and payment with 400: the
\* request never comes to the profile write and leaves the caller's profile
\* unchanged.
C22_BadSignatureRejected ==
  (/\ pay.token = "valid"
   /\ pay.signature = "sig_bad"
   /\ pay.pc \in {"set", "done"})
  => pay.pc = "done" /\ pay.status = 400 /\ ~pay.wrote

\* C28: one captured payment makes at most one user subscribed: no two
\* profiles are subscribed with the same payment id and order id.
C28_OnePaymentOneSubscriber ==
  \A a, b \in Uids :
     (/\ a # b
      /\ users[a].isSubscribed /\ users[b].isSubscribed
      /\ users[a].paymentId # None)
     => ~(/\ users[a].paymentId = users[b].paymentId
          /\ users[a].paymentOrderId = users[b].paymentOrderId)

(* ------------------------------------------------------------------ *)
(* Notifications (SpecNotify)                                          *)
(* ------------------------------------------------------------------ *)

\* No notification is in flight and no invocation is running.
Quiet ==
  /\ events = {}
  /\ \A i \in ConvSlots : conv[i].pc = "idle"
  /\ gen.pc = "idle"

\* The objects the two functions write.
HandlerWritten(path) == path.dir \in {"processed", "thumbnails"}

\* C23: there is no reprocessing loop: process_file_to_pdf ignores the
\* objects it writes (processed/...pdf), both functions ignore the objects
\* generate_pdf_thumbnail writes (thumbnails/..._thumbnail.jpg), and the
\* uploads lead to finitely many invocations, after which no notification
\* is in flight and no invocation runs.
C23_NoReprocessingLoop ==
  /\ [](\A i \in ConvSlots :
          (conv[i].pc # "idle" /\ HandlerWritten(conv[i].path))
          => /\ conv[i].pc = "returned"
             /\ conv[i].ignored # None
             /\ NoEffect(conv[i]))
  /\ []((gen.pc # "idle" /\ gen.path.dir = "thumbnails")
        => /\ gen.pc = "returned"
           /\ ~gen.uploaded /\ gen.updated = 0)
  /\ <>[]Quiet

\* Every upload was converted and given a thumbnail, every notification
\* of these writes was delivered, and nothing runs any more.
C23_QuietAfterThumbnailsReached ==
  /\ Quiet
  /\ \A d \in DocIds : files[d].status = "Completed" /\ d \in thumbs

\* C27: every document the pipeline marks Completed eventually has
\* hasThumbnail true, when no call fails and no record is deleted, for every
\* order of the PDF's notification and the Completed/pdfPath update.
C27_CompletedGetsThumbnail ==
  \A d \in DocIds :
     (files[d].status = "Completed") ~> files[d].hasThumbnail

(* ------------------------------------------------------------------ *)
(* Thumbnails and deletion (SpecThumb)                                 *)
(* ------------------------------------------------------------------ *)

\* C26: the thumbnail URL written onto a FileRecord comes from that
\* record's own PDF: the record generate_pdf_thumbnail updates for the event
\* of path P is one whose pdfPath equals P, also when several records have
\* PDFs of the same file name.
C26_ThumbnailFromOwnPdf ==
  [][(gen.updated = 0 /\ gen'.updated # 0)
     => files[gen'.updated].pdfPath = gen.path]_vars

\* C24: after delete_file answered success for a document, nothing that
\* belongs to the document remains: no FileRecord, no DocumentContent and no
\* thumbnail object (nor its upload and PDF objects), however the request
\* interleaves with process_file_to_pdf and generate_pdf_thumbnail.
C24_NothingRemainsAfterDelete ==
  (resp.handler = "delete_file" /\ resp.status = 200)
  => /\ ~files[resp.doc].exists
     /\ ~content[resp.doc].exists
     /\ resp.doc \notin thumbs
====
